---- MODULE Spec2Model ----
(***************************************************************************)
(* State-machine model of the vorticity Maelstrom node: the replicated     *)
(* document (a YATA CRDT) with its gossip engine, the kafka-log,           *)
(* broadcast, g-counter and unique-ids workloads, and the runtime threads. *)
(***************************************************************************)
EXTENDS Integers, Sequences, FiniteSets, TLC

\* ------------------------------------------------------------------ bounds
MaxWrites == 2
MaxFairWrites == 1
MaxCommits == 1
MaxReads == 1
MaxNet == 1
MaxFlight == 1
MaxMsgId == 2
IntBits == 3
MaxGenerate == 3
MaxLines == 2
MaxTicks == 1
MaxRpcs == 2
MaxReplies == 2
MaxAllocs == 5
MaxLossyTicks == 2
MaxLossyNet == 2

\* ------------------------------------------------------- program constants
NeighborFloor == 5
InitOkMsgId == 0
FirstUniqueId == 1
FirstBroadcastId == 1
FirstCounterId == 1

\* --------------------------------------------------------------- universes
Nodes == {"n1", "n2"}
Clients == {"c1"}
Keys == {"k1", "k2"}
\* The message of the w-th write: Maelstrom sends a fresh value each time.
FreshMsg(w) == <<"a", "b", "c", "d", "e">>[w + 1]
NodeSeq == <<"n1", "n2">>
NoId == <<0, 0>>
NoMsgId == 0 - 1

VARIABLES
  inited,        \* node -> BOOLEAN: init handshake done, workload constructed
  doc,           \* node -> set of blocks the node's yrs::Doc holds
  known,         \* node -> (peer -> state vector last received from peer)
  neighborhood,  \* node -> set of peers chosen at startup
  net,           \* gossip messages in flight between nodes
  msgId,         \* node -> the Context's msg_id counter
  clientNext,    \* client -> next msg_id the client will use
  last,          \* the last step taken: its node, its event, the messages sent
  sentIds,       \* node -> every msg_id it ever put on an outbound message
  reqLog,        \* client -> msg_ids of the requests it has sent, in order
  sendOffsets,   \* node -> key -> offsets answered by send_ok, in order
  sendNodes,     \* key -> nodes that handled a send for it
  writes,        \* number of send requests so far
  commits,       \* number of commit_offsets requests so far
  reads,         \* number of read-only client requests so far
  tick,          \* Gossip signals handled so far (their parity once unbounded)
  uniq,          \* unique-ids workload state
  rt,            \* runtime threads and channels
  kv,            \* lin-kv handler: pending RPC entries and their replies
  alloc          \* one msg_id counter shared by the clones of a Context

vars == <<inited, doc, known, neighborhood, net, msgId, clientNext, last,
          sentIds, reqLog, sendOffsets, sendNodes, writes, commits, reads,
          tick, uniq, rt, kv, alloc>>

\* ----------------------------------------------------- the replicated doc
\* yrs::Doc::new() draws a random client id per document; ids of distinct
\* documents are distinct, their order is arbitrary but fixed.
ClientId(n) == IF n = "n1" THEN 1 ELSE IF n = "n2" THEN 2 ELSE 3
ClientIds == {ClientId(n) : n \in Nodes}

Id(it) == <<it.client, it.clock>>

\* Blocks of a client are integrated in clock order; a block that arrives
\* ahead of a missing predecessor stays pending and is not part of the state.
Integrated(d) ==
  {it \in d : \A j \in 0..(it.clock - 1) :
                \E p \in d : p.client = it.client /\ p.clock = j}

EmptySV == [c \in ClientIds |-> 0]

StateVector(d) ==
  [c \in ClientIds |-> Cardinality({it \in Integrated(d) : it.client = c})]

EncodeDiffOffByOne(d, sv) ==
  {it \in Integrated(d) : it.clock > sv[it.client]}
EncodeDiff(d, sv) == {it \in Integrated(d) : it.clock >= sv[it.client]}

\* A mutation: blocks the document already holds are integrated once more, as
\* new blocks of the same client.
ApplyUpdateAgain(d, u) ==
  d \cup {IF it \in d THEN [it EXCEPT !.clock = StateVector(d)[it.client]]
                       ELSE it : it \in u}
\* A mutation: a non-empty update replaces the document.
ApplyUpdateOverwrite(d, u) == IF u = {} THEN d ELSE u
ApplyUpdate(d, u) == d \cup u

\* YATA order of the blocks S that share one parent: a block follows its
\* origin; blocks with the same origin are ordered by ascending client id.
RECURSIVE YataOrder(_, _, _)
YataOrder(S, o, from) ==
  LET ch == {it \in S : it.origin = o /\ it.client >= from}
  IN  IF ch = {} THEN <<>>
      ELSE LET f == CHOOSE it \in ch : \A x \in ch : it.client <= x.client
           IN  <<f>> \o YataOrder(S, Id(f), 0) \o YataOrder(S, o, f.client + 1)

LastId(seq) == IF seq = <<>> THEN NoId ELSE Id(seq[Len(seq)])

\* A map entry is the last block of the key's chain; earlier ones are deleted.
MapChain(d, kind, key) ==
  YataOrder({it \in Integrated(d) : it.kind = kind /\ it.key = key}, NoId, 0)

NoBlock ==
  [client |-> 0, clock |-> 0, kind |-> "none", key |-> "", parent |-> NoId,
   origin |-> NoId, val |-> "", num |-> 0]

MapGet(d, kind, key) ==
  LET ch == MapChain(d, kind, key)
  IN  IF ch = <<>> THEN NoBlock ELSE ch[Len(ch)]

ArrayItems(d, arr) ==
  YataOrder({it \in Integrated(d) : it.kind = "push" /\ it.parent = arr}, NoId, 0)

NextClock(d, n) == StateVector(d)[ClientId(n)]

Block(n, clk, kind, key, parent, origin, val, num) ==
  [client |-> ClientId(n), clock |-> clk, kind |-> kind, key |-> key,
   parent |-> parent, origin |-> origin, val |-> val, num |-> num]

\* ------------------------------------------------------------- integers
\* u64 and i64 at a reduced width: 2^IntBits values.
Pow2(k) == IF k = 0 THEN 1 ELSE IF k = 1 THEN 2 ELSE IF k = 2 THEN 4
           ELSE IF k = 3 THEN 8 ELSE IF k = 4 THEN 16 ELSE 32
UMax == Pow2(IntBits) - 1
AsI64(v) == IF v >= Pow2(IntBits - 1) THEN v - Pow2(IntBits) ELSE v
AsU64(i) == i % Pow2(IntBits)

\* --------------------------------------------------------------- messages
Msg(src, dst, id, irt, payload) ==
  [src |-> src, dst |-> dst, msg_id |-> id, in_reply_to |-> irt,
   payload |-> payload]

\* Context::next_msg_id: fetch_add returns the value before the increment.
\* A mutation: the increment is lost.
NextMsgIdStuck(counter) == [id |-> counter, next |-> counter]
NextMsgId(counter) == [id |-> counter, next |-> counter + 1]

\* Context::construct_reply
ReplySwapBug(ctr, m, payload) ==
  Msg(m.src, m.dst, NextMsgId(ctr).id, m.msg_id, payload)
ConstructReply(ctr, m, payload) ==
  Msg(m.dst, m.src, NextMsgId(ctr).id, m.msg_id, payload)

\* Runtime::init_node: the init_ok reply
InitOkReply(m) ==
  Msg(m.dst, m.src, InitOkMsgId, m.msg_id, [type |-> "init_ok"])

\* The gossip wire strings: base64 of the v1 encoding, decoded by the peer.
\* A string on the wire: whether it is base64 (URL-safe, no padding), whether
\* the bytes it stands for decode as a yrs v1 value, and that value.
Encode(x) == [b64 |-> TRUE, crdt |-> TRUE, bytes |-> x]
NotBase64(x) == [b64 |-> FALSE, crdt |-> FALSE, bytes |-> x]
NotCrdt(x) == [b64 |-> TRUE, crdt |-> FALSE, bytes |-> x]
DecodeOk(s) == s.b64 /\ s.crdt
Decode(s) == s.bytes

HasId(m) == m.msg_id # NoMsgId
IsReply(m) == m.in_reply_to # NoMsgId
IdsOf(ms) ==
  LET withId == SelectSeq(ms, HasId)
  IN  [i \in 1..Len(withId) |-> withId[i].msg_id]
Range(f) == {f[x] : x \in DOMAIN f}

\* ---------------------------------------------------- kafka-log workload
\* KafkaNode::init: the neighborhood drawn from Context::neighbors()
KafkaNeighborhoods ==
  IF Cardinality(Nodes) < NeighborFloor THEN {Nodes} ELSE SUBSET Nodes

\* KafkaNode::handle_send: the array of the key (created when absent) and
\* the document after the push_back
SendArr(d, n, key) ==
  LET e == MapGet(d, "logs", key)
  IN  IF e # NoBlock THEN Id(e) ELSE <<ClientId(n), NextClock(d, n)>>

SendDoc(d, n, key, msg) ==
  LET e   == MapGet(d, "logs", key)
      d1  == IF e # NoBlock THEN d
             ELSE d \cup {Block(n, NextClock(d, n), "logs", key, NoId,
                                LastId(MapChain(d, "logs", key)), "", 0)}
      arr == SendArr(d, n, key)
  IN  d1 \cup {Block(n, NextClock(d1, n), "push", key, arr,
                     LastId(ArrayItems(d1, arr)), msg, 0)}

\* offset: list.len(&txn) as u64 - 1, read after the push
SendOkOffsetLenBug(d, arr) == AsU64(Len(ArrayItems(d, arr)))
SendOkOffset(d, arr) == AsU64(Len(ArrayItems(d, arr)) - 1)

\* KafkaNode::handle_poll: enumerate().skip(from) over the key's array
Enumerate(items) == [i \in 1..Len(items) |-> <<i - 1, items[i].val>>]
Skip(s, k) == SubSeq(s, k + 1, Len(s))

PollMsgsSkipFirst(d, offs) ==
  [k \in {x \in DOMAIN offs : MapGet(d, "logs", x) # NoBlock} |->
     Enumerate(Skip(ArrayItems(d, Id(MapGet(d, "logs", k))), offs[k]))]
PollMsgs(d, offs) ==
  [k \in {x \in DOMAIN offs : MapGet(d, "logs", x) # NoBlock} |->
     Skip(Enumerate(ArrayItems(d, Id(MapGet(d, "logs", k)))), offs[k])]

\* KafkaNode::handle_commit_offsets: one map insert per entry, in the
\* iteration order ord of the request's HashMap
RECURSIVE CommitDoc(_, _, _, _)
CommitDoc(d, n, offs, ord) ==
  IF ord = <<>> THEN d
  ELSE LET k == Head(ord)
       IN  CommitDoc(d \cup {Block(n, NextClock(d, n), "off", k, NoId,
                                   LastId(MapChain(d, "off", k)), "",
                                   AsI64(offs[k]))},
                     n, offs, Tail(ord))

\* KafkaNode::handle_list_committed_offsets
ListOffsetsNoDefault(d, keys) ==
  [k \in {x \in Range(keys) : MapGet(d, "off", x) # NoBlock} |->
     AsU64(MapGet(d, "off", k).num)]
ListOffsets(d, keys) ==
  [k \in Range(keys) |->
     AsU64(IF MapGet(d, "off", k) = NoBlock THEN 0
           ELSE MapGet(d, "off", k).num)]

Orders(S) == {s \in UNION {[1..m -> S] : m \in 0..Cardinality(S)} :
                /\ Len(s) = Cardinality(S)
                /\ Range(s) = S}

PollRequests == {[k \in Keys |-> from] : from \in {0, 1}}
\* The w-th commit stores a fresh offset value for the keys it names.
FreshOffset(w) == <<UMax, 1, 2, 3, 0>>[w + 1]
CommitRequests(w) ==
  {[k \in D |-> FreshOffset(w)] : D \in (SUBSET Keys) \ {{}}}
ListRequests == {<<"k1", "k2">>, <<"k2", "k2">>}

\* What one step leaves behind: the handled event, the messages it sent and
\* the ids it allocated.
Stepped(n, in, out) ==
  /\ last' = [node |-> n, in |-> in, out |-> out, error |-> ""]
  /\ sentIds' = [sentIds EXCEPT ![n] = @ \o IdsOf(out)]

\* A client request as Maelstrom delivers it: each client numbers its requests.
Request(c, n, payload) == Msg(c, n, clientNext[c], NoMsgId, payload)

Delivered(c, n) ==
  /\ clientNext' = [clientNext EXCEPT ![c] = @ + 1]
  /\ reqLog' = [reqLog EXCEPT ![c] = Append(@, clientNext[c])]

\* Replying through the Context: construct_reply, then send.
Reply(n, in, payload) ==
  /\ Stepped(n, in, <<ConstructReply(msgId[n], in, payload)>>)
  /\ msgId' = [msgId EXCEPT ![n] = NextMsgId(@).next]

\* Runtime::init_node for a node whose workload draws its neighborhood nbh:
\* the first line is the init message; from_init builds the node, then
\* init_ok is sent.
\* known is a HashMap from node id to state vector. A node that has not been
\* constructed has none; init gives it one default (empty) vector per id of
\* the cluster, whatever the neighborhood drawn.
NoKnown == [p \in {} |-> EmptySV]
\* A mutation: the map starts empty.
KnownInitEmpty(ids) == NoKnown
KnownInit(ids) == [p \in ids |-> EmptySV]

\* HashMap::insert
Insert(map, key, value) ==
  [k \in DOMAIN map \cup {key} |-> IF k = key THEN value ELSE map[k]]

InitNode(n, c, nbh, first) ==
  /\ ~inited[n]
  /\ inited' = [inited EXCEPT ![n] = TRUE]
  /\ neighborhood' = [neighborhood EXCEPT ![n] = nbh]
  /\ msgId' = [msgId EXCEPT ![n] = first]
  /\ Stepped(n, Request(c, n, [type |-> "init"]),
             <<InitOkReply(Request(c, n, [type |-> "init"]))>>)
  /\ Delivered(c, n)
  /\ known' = [known EXCEPT ![n] = KnownInit(Nodes)]
  /\ UNCHANGED <<doc, net, sendOffsets, sendNodes, writes, commits,
                 reads, tick, uniq, rt, kv, alloc>>

KafkaInit ==
  \E n \in Nodes, c \in Clients, nbh \in KafkaNeighborhoods :
    InitNode(n, c, nbh, msgId[n])

HandleSend(budget) ==
  \E n \in Nodes, c \in Clients, key \in Keys, msg \in {FreshMsg(writes)} :
    /\ inited[n]
    /\ writes < budget
    /\ LET in  == Request(c, n, [type |-> "send", key |-> key, msg |-> msg])
           d2  == SendDoc(doc[n], n, key, msg)
           off == SendOkOffset(d2, SendArr(doc[n], n, key))
       IN  /\ doc' = [doc EXCEPT ![n] = d2]
           /\ Reply(n, in, [type |-> "send_ok", offset |-> off])
           /\ sendOffsets' = [sendOffsets EXCEPT ![n][key] = Append(@, off)]
    /\ sendNodes' = [sendNodes EXCEPT ![key] = @ \cup {n}]
    /\ Delivered(c, n)
    /\ writes' = writes + 1
    /\ UNCHANGED <<inited, known, neighborhood, net, commits, reads, tick,
                   uniq, rt, kv, alloc>>

KafkaSend == HandleSend(MaxWrites)

KafkaPoll ==
  \E n \in Nodes, c \in Clients, offs \in PollRequests :
    /\ inited[n]
    /\ reads < MaxReads
    /\ Reply(n, Request(c, n, [type |-> "poll", offsets |-> offs]),
             [type |-> "poll_ok", msgs |-> PollMsgs(doc[n], offs)])
    /\ Delivered(c, n)
    /\ reads' = reads + 1
    /\ UNCHANGED <<inited, doc, known, neighborhood, net, sendOffsets,
                   sendNodes, writes, commits, tick, uniq, rt, kv, alloc>>

KafkaCommitOffsets ==
  \E n \in Nodes, c \in Clients, offs \in CommitRequests(commits) :
    \E ord \in Orders(DOMAIN offs) :
      /\ inited[n]
      /\ commits < MaxCommits
      /\ doc' = [doc EXCEPT ![n] = CommitDoc(@, n, offs, ord)]
      /\ Reply(n, Request(c, n,
                          [type |-> "commit_offsets", offsets |-> offs]),
               [type |-> "commit_offsets_ok"])
      /\ Delivered(c, n)
      /\ commits' = commits + 1
      /\ UNCHANGED <<inited, known, neighborhood, net, sendOffsets, sendNodes,
                     writes, reads, tick, uniq, rt, kv, alloc>>

KafkaListCommittedOffsets ==
  \E n \in Nodes, c \in Clients, keys \in ListRequests :
    /\ inited[n]
    /\ reads < MaxReads
    /\ Reply(n, Request(c, n,
                        [type |-> "list_committed_offsets", keys |-> keys]),
             [type |-> "list_committed_offsets_ok",
              offsets |-> ListOffsets(doc[n], keys)])
    /\ Delivered(c, n)
    /\ reads' = reads + 1
    /\ UNCHANGED <<inited, doc, known, neighborhood, net, sendOffsets,
                   sendNodes, writes, commits, tick, uniq, rt, kv, alloc>>

\* ---------------------------------------------------------- gossip engine
\* A mutation: any variant of InjectedPayload may be injected.
AnyInjected == {"Gossip", "Tick"}
\* A mutation: gossip sent as an RPC, with a msg_id of the sender.
GossipMsgAsRpc(n, p, type) ==
  Msg(n, p, msgId[n], NoMsgId,
      [type |-> type,
       state_vector |-> Encode(StateVector(doc[n])),
       diff |-> Encode(EncodeDiff(doc[n], known[n][p]))])
GossipMsg(n, p, type) ==
  Msg(n, p, NoMsgId, NoMsgId,
      [type |-> type,
       state_vector |-> Encode(StateVector(doc[n])),
       diff |-> Encode(EncodeDiff(doc[n], known[n][p]))])

\* The peers a Gossip signal sends to: every member of the neighborhood whose
\* recorded state vector differs from the local one, and the members in
\* resend (the 10% draw came up) whose vector is the same.
GossipTargets(n, resend) ==
  SelectSeq(NodeSeq, LAMBDA p : /\ p \in neighborhood[n]
                                /\ \/ known[n][p] # StateVector(doc[n])
                                   \/ p \in resend)

InjectedGossip(n) == Msg("timer", n, NoMsgId, NoMsgId, [type |-> "Gossip"])

\* Handling Injected(Gossip): one message per target, in neighborhood order.
\* Of the messages sent, the network carries those in kept and loses the
\* others at once; it holds at most each messages from one node to another
\* and total messages in all. record tells whether the step is written to last.
GossipOut(n, type, resend) ==
  LET targets == GossipTargets(n, resend)
  IN  [i \in 1..Len(targets) |-> GossipMsg(n, targets[i], type)]

SendGossip(n, type, lossy, each, total, record) ==
  \E resend \in SUBSET neighborhood[n] :
    LET out == GossipOut(n, type, resend)
    IN  \E kept \in (IF lossy THEN SUBSET Range(out) ELSE {Range(out)}) :
          /\ inited[n]
          /\ Cardinality(net \cup kept) <= total
          /\ \A p \in Nodes :
               Cardinality({m \in net \cup kept : m.src = n /\ m.dst = p})
                 <= each
          /\ net' = net \cup kept
          /\ IF record THEN Stepped(n, InjectedGossip(n), out)
                       ELSE UNCHANGED <<last, sentIds>>
          /\ UNCHANGED <<inited, doc, known, neighborhood, msgId, clientNext,
                         reqLog, sendOffsets, sendNodes, writes, commits,
                         reads, uniq, rt, kv, alloc>>

\* Handling an inbound gossip message m: decode both strings, record the
\* sender's state vector, apply the diff. No reply is sent.
WellFormedGossip(m) ==
  DecodeOk(m.payload.state_vector) /\ DecodeOk(m.payload.diff)

\* The Err the step returns: the first decoding that fails, the state vector
\* before the diff and base64 before the CRDT decoding.
GossipError(m) ==
  IF ~m.payload.state_vector.b64 THEN "base64 decode failed"
  ELSE IF ~m.payload.state_vector.crdt THEN "StateVector decode failed"
  ELSE IF ~m.payload.diff.b64 THEN "base64 decode failed"
  ELSE IF ~m.payload.diff.crdt THEN "Update decode failed"
  ELSE ""

\* A mutation: the sender's state vector is not recorded.
KnownKept(kn, m) == kn
\* A mutation: the vector is recorded before the diff is decoded.
KnownBeforeDiff(kn, m) ==
  IF DecodeOk(m.payload.state_vector)
  THEN [kn EXCEPT ![m.src] = Decode(m.payload.state_vector)]
  ELSE kn
\* A mutation: the vector recorded counts one operation more of each client.
KnownAhead(kn, m) ==
  IF WellFormedGossip(m)
  THEN [kn EXCEPT ![m.src] = [c \in ClientIds |->
                               Decode(m.payload.state_vector)[c] + 1]]
  ELSE kn
KnownAfterGossip(kn, m) ==
  IF WellFormedGossip(m)
  THEN Insert(kn, m.src, Decode(m.payload.state_vector))
  ELSE kn

DocAfterGossip(d, m) ==
  IF WellFormedGossip(m) THEN ApplyUpdate(d, Decode(m.payload.diff)) ELSE d

\* again: the network delivers the message and keeps a copy in flight.
HandleGossip(n, m, record, again) ==
  /\ inited[n]
  /\ m \in net
  /\ m.dst = n
  /\ net' = IF again THEN net ELSE net \ {m}
  /\ IF record
     THEN /\ last' = [node |-> n, in |-> m, out |-> <<>>,
                      error |-> GossipError(m)]
          /\ UNCHANGED sentIds
     ELSE UNCHANGED <<last, sentIds>>
  /\ known' = [known EXCEPT ![n] = KnownAfterGossip(@, m)]
  /\ doc' = [doc EXCEPT ![n] = DocAfterGossip(@, m)]
  /\ UNCHANGED <<inited, neighborhood, clientNext, reqLog, sendOffsets,
                 sendNodes, writes, commits, reads, tick, uniq, rt, kv, alloc>>

ReceiveGossip(n, m, record) == HandleGossip(n, m, record, FALSE)

\* The network loses a message in flight.
LoseGossip ==
  \E m \in net :
    /\ net' = net \ {m}
    /\ UNCHANGED <<inited, doc, known, neighborhood, msgId, clientNext, last,
                   sentIds, reqLog, sendOffsets, sendNodes, writes, commits,
                   reads, tick, uniq, rt, kv, alloc>>

\* The variants of the kafka node's InjectedPayload, and those the node's
\* own threads inject: the one timer thread of init injects Gossip only.
\* stdin lines become Message events and never Injected ones.
InjectedPayloads == {"Gossip", "Tick"}
TimerInjects == {"Gossip"}

\* KafkaNode::tick is todo!(): it panics.
TickPanic == "not yet implemented"
KafkaTick(n) ==
  /\ inited[n]
  /\ last' = [node |-> n,
              in |-> Msg("timer", n, NoMsgId, NoMsgId, [type |-> "Tick"]),
              out |-> <<>>, error |-> TickPanic]
  /\ UNCHANGED <<inited, doc, known, neighborhood, net, msgId, clientNext,
                 sentIds, reqLog, sendOffsets, sendNodes, writes, commits,
                 reads, uniq, rt, kv, alloc>>

\* KafkaNode::handle_injected
KafkaHandleInjected(n, sig) ==
  IF sig = "Gossip" THEN SendGossip(n, "admin", TRUE, MaxNet, MaxNet, TRUE)
  ELSE KafkaTick(n)

\* The safety specifications handle at most MaxTicks injected signals.
KafkaSendGossip ==
  \E n \in Nodes, sig \in TimerInjects :
    /\ tick < MaxTicks
    /\ KafkaHandleInjected(n, sig)
    /\ tick' = tick + 1

KafkaHandleAdmin ==
  \E n \in Nodes, m \in net : ReceiveGossip(n, m, TRUE) /\ UNCHANGED msgId

\* Threads that may hold a clone of the Context.
Threads == {"main", "timer", "worker"}

\* ------------------------------------------------------------ initial state
\* Node ids are arbitrary strings of the harness; one of them ends like an id.
UniqueNodes == {"n1", "n2", "n1-1"}
MsgIdStart == 0
NoEvent == Msg("", "", NoMsgId, NoMsgId, [type |-> "none"])
NoCall == [orig |-> NoEvent, ok |-> FALSE]
NoReply == [reply |-> NoEvent, route |-> "none", before |-> <<>>, found |-> 0,
            called |-> FALSE, returned |-> "none"]

Init ==
  /\ inited = [n \in Nodes |-> FALSE]
  /\ doc = [n \in Nodes |-> {}]
  /\ known = [n \in Nodes |-> NoKnown]
  /\ neighborhood = [n \in Nodes |-> {}]
  /\ net = {}
  /\ msgId = [n \in Nodes |-> MsgIdStart]
  /\ clientNext = [c \in Clients |-> 0]
  /\ last = [node |-> "", in |-> NoEvent, out |-> <<>>, error |-> ""]
  /\ sentIds = [n \in Nodes |-> <<>>]
  /\ reqLog = [c \in Clients |-> <<>>]
  /\ sendOffsets = [n \in Nodes |-> [k \in Keys |-> <<>>]]
  /\ sendNodes = [k \in Keys |-> {}]
  /\ writes = 0
  /\ commits = 0
  /\ reads = 0
  /\ tick = 0
  /\ uniq = [n \in UniqueNodes |->
              [up |-> "new", node |-> n, msg_id |-> 0, seen |-> 0, bailed |-> 0,
               out |-> <<>>]]
  /\ rt = [pc |-> "read_init", stdin |-> <<>>, fed |-> 0, closed |-> FALSE,
           initMsg |-> NoEvent, timer |-> FALSE, reader |-> FALSE,
           writer |-> FALSE, msgIn |-> <<>>, msgOut |-> <<>>,
           stdout |-> <<>>, ticks |-> 0, early |-> FALSE,
           running |-> <<>>, eofDone |-> FALSE, afterEof |-> 0,
           unhandled |-> 0, sent |-> <<>>, outSenders |-> {"run"},
           errors |-> <<>>, eofSent |-> FALSE, timerSawClosed |-> FALSE]
  /\ kv = [status |-> "running", callbacks |-> <<>>, msgId |-> MsgIdStart,
           out |-> <<>>, errors |-> <<>>, invoked |-> <<>>, rpcs |-> 0,
           replies |-> 0, last |-> NoReply, call |-> NoCall]
  /\ alloc = [counter |-> MsgIdStart, holders |-> {"main"},
              got |-> [t \in Threads |-> <<>>], calls |-> 0]

NextKafka ==
  \/ KafkaInit
  \/ KafkaSend
  \/ KafkaPoll
  \/ KafkaCommitOffsets
  \/ KafkaListCommittedOffsets
  \/ KafkaSendGossip
  \/ KafkaHandleAdmin
  \/ LoseGossip

SpecKafka == Init /\ [][NextKafka]_vars

\* ------------------------------------------------------ views of the state
HasLog(d, k) == MapGet(d, "logs", k) # NoBlock
LogView(d, k) ==
  LET items == ArrayItems(d, Id(MapGet(d, "logs", k)))
  IN  [i \in 1..Len(items) |-> items[i].val]
HasOffset(d, k) == \E it \in Integrated(d) : it.kind = "off" /\ it.key = k
OffsetView(d, k) == IF HasOffset(d, k) THEN AsU64(MapGet(d, "off", k).num) ELSE 0
NoDuplicates(s) == \A i, j \in DOMAIN s : i # j => s[i] # s[j]
LastType == last.in.payload.type
Merged(n) == \E it \in doc[n] : it.client # ClientId(n)

\* ------------------------------------------------------------------ claims
\* C1: every msg_id a process puts on an outbound message (init_ok, replies,
\* RPC requests) is carried by no other outbound message of that process.
C1_UniqueMsgIds == \A n \in Nodes : NoDuplicates(sentIds[n])

\* C2: every reply the node emits answers the request it is handling: src and
\* dst are the request's dst and src, and in_reply_to is the msg_id of exactly
\* one message the destination has sent before.
C2_ReplyAnswersRequest ==
  \A i \in DOMAIN last.out :
    LET r == last.out[i]
    IN  IsReply(r) =>
          /\ r.src = last.in.dst
          /\ r.src = last.node
          /\ r.dst = last.in.src
          /\ r.dst \in Clients
          /\ r.in_reply_to = last.in.msg_id
          /\ Cardinality({j \in DOMAIN reqLog[r.dst] :
                            reqLog[r.dst][j] = r.in_reply_to}) = 1

C2_Witness ==
  /\ LastType = "send"
  /\ Len(last.out) = 1
  /\ last.out[1].payload.type = "send_ok"
  /\ last.out[1].in_reply_to = last.in.msg_id
  /\ last.in.msg_id > 0

\* C7: while one node alone handles the sends of a key, its n-th send_ok
\* carries offset n (0, 1, 2, ...) and the key's log has one entry per send.
C7_DenseOffsets ==
  \A n \in Nodes, k \in Keys :
    sendNodes[k] = {n} =>
      /\ sendOffsets[n][k] = [i \in 1..Len(sendOffsets[n][k]) |-> i - 1]
      /\ Len(LogView(doc[n], k)) = Len(sendOffsets[n][k])

C7_Witness ==
  \E n \in Nodes, k \in Keys :
    /\ sendNodes[k] = {n}
    /\ sendOffsets[n][k] = <<0, 1>>
    /\ Merged(n)
    /\ reads > 0
    /\ commits > 0

\* C8: poll_ok.msgs has an entry exactly for the requested keys present in
\* the local logs, holding the pairs (i, logs[key][i]) for from <= i < len in
\* increasing i (none when from >= len).
PollExpected(d, offs, msgs) ==
  /\ DOMAIN msgs = {k \in DOMAIN offs : HasLog(d, k)}
  /\ \A k \in DOMAIN msgs :
       LET log == LogView(d, k)
           n == IF Len(log) > offs[k] THEN Len(log) - offs[k] ELSE 0
       IN  /\ DOMAIN msgs[k] = 1..n
           /\ \A j \in 1..n : msgs[k][j] = <<offs[k] + j - 1, log[offs[k] + j]>>

\* Polls beyond the ones a client of the model sends, asked of the document
\* of the node that took the last step.
PollDomain ==
  {[k \in D |-> from] : D \in {{"k1"}, Keys}, from \in {0, 2, UMax}}

C8_PollOk ==
  /\ LastType = "poll" =>
       /\ Len(last.out) = 1
       /\ last.out[1].payload.type = "poll_ok"
       /\ PollExpected(doc[last.node], last.in.payload.offsets,
                       last.out[1].payload.msgs)
  /\ last.node \in Nodes =>
       \A offs \in PollDomain :
         PollExpected(doc[last.node], offs, PollMsgs(doc[last.node], offs))

C8_Witness ==
  /\ LastType = "poll"
  /\ \E k \in Keys, j \in Keys :
       /\ Len(LogView(doc[last.node], k)) = 2
       /\ last.in.payload.offsets[k] = 1
       /\ last.out[1].payload.msgs[k] = <<<<1, LogView(doc[last.node], k)[2]>>>>
       /\ ~HasLog(doc[last.node], j)
       /\ j \notin DOMAIN last.out[1].payload.msgs

\* C9: list_committed_offsets_ok.offsets has exactly one entry per requested
\* key, the offset the node's document holds for it (the one a commit_offsets
\* just stored, right after that commit) and 0 when none was ever committed;
\* commit_offsets changes the offsets of the keys it names only.
C9_ListState ==
  /\ LastType = "list_committed_offsets" =>
       /\ Len(last.out) = 1
       /\ last.out[1].payload.type = "list_committed_offsets_ok"
       /\ DOMAIN last.out[1].payload.offsets = Range(last.in.payload.keys)
       /\ \A k \in Range(last.in.payload.keys) :
            last.out[1].payload.offsets[k] = OffsetView(doc[last.node], k)
  /\ LastType = "commit_offsets" =>
       \A k \in DOMAIN last.in.payload.offsets :
         /\ HasOffset(doc[last.node], k)
         /\ ListOffsets(doc[last.node], <<k>>)[k] = last.in.payload.offsets[k]
  /\ \A n \in Nodes, k \in Keys :
       ~HasOffset(doc[n], k) => ListOffsets(doc[n], <<k, k>>) = [x \in {k} |-> 0]

C9_CommitFrame ==
  (commits' = commits + 1 /\ last'.in.payload.type = "commit_offsets") =>
     /\ \A k \in Keys \ DOMAIN last'.in.payload.offsets :
          /\ HasOffset(doc'[last'.node], k) = HasOffset(doc[last'.node], k)
          /\ OffsetView(doc'[last'.node], k) = OffsetView(doc[last'.node], k)
     /\ \A k \in Keys :
          /\ HasLog(doc'[last'.node], k) = HasLog(doc[last'.node], k)
          /\ LogView(doc'[last'.node], k) = LogView(doc[last'.node], k)
     /\ \A n \in Nodes \ {last'.node} : doc'[n] = doc[n]

RandomNeighborhoods == SUBSET Nodes

\* Message::into_reply(Some(&mut msg_id)): the reply takes the counter's value
\* and the counter advances; the model saturates it at MaxMsgId.
IntoReply(ctr, m, payload) == Msg(m.dst, m.src, ctr, m.msg_id, payload)
Advance(ctr) == IF ctr < MaxMsgId THEN ctr + 1 ELSE ctr

ReplyInto(n, in, payload) ==
  /\ Stepped(n, in, <<IntoReply(msgId[n], in, payload)>>)
  /\ msgId' = [msgId EXCEPT ![n] = Advance(@)]

\* The w-th broadcast of a run carries a value of its own.
FreshValue(w) == w + 1
Broadcasts == {FreshValue(w) : w \in 0..(writes - 1)}

Messages(d) == YataOrder({it \in Integrated(d) : it.kind = "msg"}, NoId, 0)
BroadcastDoc(d, n, message) ==
  d \cup {Block(n, NextClock(d, n), "msg", "", NoId, LastId(Messages(d)), "",
                AsI64(message))}
\* A mutation: the read returns the first message only.
ReadFirst(d) ==
  [i \in 1..(IF Messages(d) = <<>> THEN 0 ELSE 1) |-> AsU64(Messages(d)[i].num)]
ReadMessages(d) == [i \in 1..Len(Messages(d)) |-> AsU64(Messages(d)[i].num)]

BroadcastInit ==
  \E n \in Nodes, c \in Clients, nbh \in RandomNeighborhoods :
    InitNode(n, c, nbh, FirstBroadcastId)

HandleBroadcast(budget) ==
  \E n \in Nodes, c \in Clients :
    /\ inited[n]
    /\ writes < budget
    /\ doc' = [doc EXCEPT ![n] = BroadcastDoc(@, n, FreshValue(writes))]
    /\ ReplyInto(n, Request(c, n, [type |-> "broadcast",
                                   message |-> FreshValue(writes)]),
                 [type |-> "broadcast_ok"])
    /\ Delivered(c, n)
    /\ writes' = writes + 1
    /\ UNCHANGED <<inited, known, neighborhood, net, sendOffsets, sendNodes,
                   commits, reads, tick, uniq, rt, kv, alloc>>

BroadcastBroadcast == HandleBroadcast(MaxFairWrites)

\* The read converts each stored i64 with try_into().expect(..), which panics
\* on a negative one: a value of half the unsigned range or more was stored
\* negative by the cast of the broadcast. The workload's values stay below.
ReadPanics(d) == \E it \in Integrated(d) : it.kind = "msg" /\ it.num < 0

BroadcastRead ==
  \E n \in Nodes, c \in Clients :
    /\ inited[n]
    /\ reads < MaxReads
    /\ ~ReadPanics(doc[n])
    /\ ReplyInto(n, Request(c, n, [type |-> "read"]),
                 [type |-> "read_ok", messages |-> ReadMessages(doc[n])])
    /\ Delivered(c, n)
    /\ reads' = reads + 1
    /\ UNCHANGED <<inited, doc, known, neighborhood, net, sendOffsets,
                   sendNodes, writes, commits, tick, uniq, rt, kv, alloc>>

BroadcastTopology ==
  \E n \in Nodes, c \in Clients :
    /\ inited[n]
    /\ reads < MaxReads
    /\ ReplyInto(n, Request(c, n, [type |-> "topology"]),
                 [type |-> "topology_ok"])
    /\ Delivered(c, n)
    /\ reads' = reads + 1
    /\ UNCHANGED <<inited, doc, known, neighborhood, net, sendOffsets,
                   sendNodes, writes, commits, tick, uniq, rt, kv, alloc>>

\* The timer thread keeps injecting Gossip; tick keeps the parity of the
\* signals handled. The network of this specification loses nothing and
\* holds MaxFlight messages from one node to another.
TimerGossip(n, type) ==
  /\ SendGossip(n, type, FALSE, MaxFlight,
                MaxFlight * Cardinality(Nodes \X Nodes), FALSE)
  /\ tick' = 1 - tick

\* A gossip message is a Message event: into_reply runs first and takes an id.
PeerGossip(n, p) ==
  \E m \in net :
    /\ m.src = p
    /\ ReceiveGossip(n, m, FALSE)
    /\ msgId' = [msgId EXCEPT ![n] = Advance(@)]

BroadcastGossip == \E n \in Nodes : TimerGossip(n, "gossip")
BroadcastReceive == \E n \in Nodes, p \in Nodes : PeerGossip(n, p)

NextBroadcast ==
  \/ BroadcastInit
  \/ BroadcastBroadcast
  \/ BroadcastRead
  \/ BroadcastTopology
  \/ BroadcastGossip
  \/ BroadcastReceive

\* Ticks come every 300 ms for as long as the node lives and Maelstrom
\* delivers what it does not drop: every node keeps handling Gossip signals
\* and every message in flight, from whichever node, is handled.
FairGossip(type) ==
  /\ \A n \in Nodes : SF_vars(TimerGossip(n, type))
  /\ \A n \in Nodes, p \in Nodes : WF_vars(PeerGossip(n, p))

SpecBroadcast == Init /\ [][NextBroadcast]_vars /\ FairGossip("gossip")

\* The broadcast node over a network that may lose, delay, reorder and
\* duplicate gossip, with every step written to last: up to MaxWrites
\* broadcasts and MaxLossyTicks Gossip signals, MaxLossyNet messages in flight.
LossyBroadcast == HandleBroadcast(MaxWrites)

LossyBroadcastGossip ==
  \E n \in Nodes :
    /\ tick < MaxLossyTicks
    /\ SendGossip(n, "gossip", TRUE, MaxLossyNet, MaxLossyNet, TRUE)
    /\ tick' = tick + 1

LossyBroadcastReceive ==
  \E n \in Nodes, m \in net, again \in BOOLEAN :
    /\ HandleGossip(n, m, TRUE, again)
    /\ msgId' = [msgId EXCEPT ![n] = Advance(@)]

\* Gossip as a peer never writes it: one of the two strings does not decode.
\* The message claims a state vector of one operation per client and a diff
\* of one block.
ClaimedSV == [c \in ClientIds |-> 1]
ClaimedDiff(p) == {Block(p, 0, "msg", "", NoId, NoId, "", 0)}
UndecodableGossip(p, n) ==
  {Msg(p, n, NoMsgId, NoMsgId,
       [type |-> "gossip", state_vector |-> sv, diff |-> df]) :
     sv \in {Encode(ClaimedSV), NotBase64(ClaimedSV), NotCrdt(ClaimedSV)},
     df \in {Encode(ClaimedDiff(p)), NotBase64(ClaimedDiff(p)),
             NotCrdt(ClaimedDiff(p))}}
    \ {Msg(p, n, NoMsgId, NoMsgId,
            [type |-> "gossip", state_vector |-> Encode(ClaimedSV),
             diff |-> Encode(ClaimedDiff(p))])}

UndecodableArrives ==
  \E n \in Nodes : \E p \in Nodes \ {n} :
    \E m \in UndecodableGossip(p, n) :
      /\ inited[n]
      /\ net = {}
      /\ net' = {m}
      /\ UNCHANGED <<inited, doc, known, neighborhood, msgId, clientNext, last,
                     sentIds, reqLog, sendOffsets, sendNodes, writes, commits,
                     reads, tick, uniq, rt, kv, alloc>>

NextLossyBroadcast ==
  \/ BroadcastInit
  \/ LossyBroadcast
  \/ BroadcastRead
  \/ BroadcastTopology
  \/ LossyBroadcastGossip
  \/ LossyBroadcastReceive
  \/ LoseGossip

SpecLossyBroadcast == Init /\ [][NextLossyBroadcast]_vars

\* The broadcast node receiving gossip of its peers and gossip that does not
\* decode: MaxTicks Gossip signals, one message in flight.
DecodeGossip ==
  \E n \in Nodes :
    /\ tick < MaxTicks
    /\ SendGossip(n, "gossip", FALSE, MaxNet, MaxNet, TRUE)
    /\ tick' = tick + 1

DecodeReceive ==
  \E n \in Nodes, m \in net :
    /\ ReceiveGossip(n, m, TRUE)
    /\ msgId' = [msgId EXCEPT ![n] = Advance(@)]

NextGossipDecode ==
  \/ BroadcastInit
  \/ LossyBroadcast
  \/ UndecodableArrives
  \/ DecodeGossip
  \/ DecodeReceive

SpecGossipDecode == Init /\ [][NextGossipDecode]_vars

\* C4: under fair ticks and fair delivery, eventually every node's
\* read_ok.messages contains every value broadcast to any node.
BroadcastConverged ==
  \A n \in Nodes : inited[n] => Broadcasts \subseteq Range(ReadMessages(doc[n]))
C4_BroadcastConverges == <>[]BroadcastConverged

\* -------------------------------------------------------- g-counter workload
FreshDelta(w) == <<1, 2, 1, 1>>[w + 1]
RECURSIVE SumDeltas(_)
SumDeltas(w) == IF w = 0 THEN 0 ELSE FreshDelta(w - 1) + SumDeltas(w - 1)

\* The counter map has one entry per document client id.
CounterKey(n) == n
CounterGet(d, key) ==
  IF MapGet(d, "ctr", key) = NoBlock THEN 0 ELSE MapGet(d, "ctr", key).num
\* A mutation: the slot is set to delta instead of being raised by it.
AddDocOverwrite(d, n, delta) ==
  d \cup {Block(n, NextClock(d, n), "ctr", CounterKey(n), NoId,
                LastId(MapChain(d, "ctr", CounterKey(n))), "", AsI64(delta))}
AddDoc(d, n, delta) ==
  d \cup {Block(n, NextClock(d, n), "ctr", CounterKey(n), NoId,
                LastId(MapChain(d, "ctr", CounterKey(n))), "",
                CounterGet(d, CounterKey(n)) + AsI64(delta))}
RECURSIVE SumEntries(_, _)
SumEntries(d, keys) ==
  IF keys = {} THEN 0
  ELSE LET k == CHOOSE x \in keys : TRUE
       IN  AsU64(CounterGet(d, k)) + SumEntries(d, keys \ {k})
ReadValue(d) ==
  SumEntries(d, {it.key : it \in {b \in Integrated(d) : b.kind = "ctr"}})

CounterInit ==
  \E n \in Nodes, c \in Clients, nbh \in RandomNeighborhoods :
    InitNode(n, c, nbh, FirstCounterId)

HandleAdd(budget) ==
  \E n \in Nodes, c \in Clients :
    /\ inited[n]
    /\ writes < budget
    /\ doc' = [doc EXCEPT ![n] = AddDoc(@, n, FreshDelta(writes))]
    /\ ReplyInto(n, Request(c, n, [type |-> "add",
                                   delta |-> FreshDelta(writes)]),
                 [type |-> "add_ok"])
    /\ Delivered(c, n)
    /\ writes' = writes + 1
    /\ UNCHANGED <<inited, known, neighborhood, net, sendOffsets, sendNodes,
                   commits, reads, tick, uniq, rt, kv, alloc>>

CounterAdd == HandleAdd(MaxFairWrites)

CounterRead ==
  \E n \in Nodes, c \in Clients :
    /\ inited[n]
    /\ reads < MaxReads
    /\ ReplyInto(n, Request(c, n, [type |-> "read"]),
                 [type |-> "read_ok", value |-> ReadValue(doc[n])])
    /\ Delivered(c, n)
    /\ reads' = reads + 1
    /\ UNCHANGED <<inited, doc, known, neighborhood, net, sendOffsets,
                   sendNodes, writes, commits, tick, uniq, rt, kv, alloc>>

CounterGossip == \E n \in Nodes : TimerGossip(n, "gossip")
CounterReceive == \E n \in Nodes, p \in Nodes : PeerGossip(n, p)

NextCounter ==
  \/ CounterInit
  \/ CounterAdd
  \/ CounterRead
  \/ CounterGossip
  \/ CounterReceive

SpecCounter == Init /\ [][NextCounter]_vars /\ FairGossip("gossip")

\* The g-counter node over a network that may lose, delay, reorder and
\* duplicate gossip: up to MaxWrites adds and MaxLossyTicks Gossip signals,
\* with MaxLossyNet messages in flight.
LossyAdd == HandleAdd(MaxWrites)

LossyCounterGossip ==
  \E n \in Nodes :
    /\ tick < MaxLossyTicks
    /\ SendGossip(n, "gossip", TRUE, MaxLossyNet, MaxLossyNet, FALSE)
    /\ tick' = tick + 1

LossyCounterReceive ==
  \E n \in Nodes, m \in net, again \in BOOLEAN :
    /\ HandleGossip(n, m, FALSE, again)
    /\ msgId' = [msgId EXCEPT ![n] = Advance(@)]

NextLossyCounter ==
  \/ CounterInit
  \/ LossyAdd
  \/ CounterRead
  \/ LossyCounterGossip
  \/ LossyCounterReceive
  \/ LoseGossip

SpecLossyCounter == Init /\ [][NextLossyCounter]_vars

\* C5: under fair ticks and fair delivery, eventually read on every node
\* returns the sum of all deltas added at any node.
CounterConverged ==
  \A n \in Nodes : inited[n] => ReadValue(doc[n]) = SumDeltas(writes)
C5_CounterConverges == <>[]CounterConverged

\* ------------------------------------------- kafka-log under fair gossip
\* The writes stop after MaxFairWrites sends; Gossip signals keep coming and
\* the network may lose any message, at the send or in flight.
FairKafkaSend == HandleSend(MaxFairWrites)

FairKafkaGossip(n) ==
  /\ SendGossip(n, "admin", TRUE, MaxFlight,
                MaxFlight * Cardinality(Nodes \X Nodes), FALSE)
  /\ tick' = 1 - tick

\* Node n handles a gossip message that node p sent.
FairKafkaDeliver(n, p) ==
  \E m \in net :
    /\ m.src = p
    /\ ReceiveGossip(n, m, FALSE)
    /\ UNCHANGED msgId

FairKafkaTick == \E n \in Nodes : FairKafkaGossip(n)
FairKafkaAdmin == \E n \in Nodes, p \in Nodes : FairKafkaDeliver(n, p)

NextFairKafka ==
  \/ KafkaInit
  \/ FairKafkaSend
  \/ FairKafkaTick
  \/ FairKafkaAdmin
  \/ LoseGossip

FairSpecKafka ==
  /\ Init
  /\ [][NextFairKafka]_vars
  /\ \A n \in Nodes : SF_vars(FairKafkaGossip(n))

AllOperations == UNION {doc[n] : n \in Nodes}
KafkaConverged ==
  /\ \A n \in Nodes : Integrated(doc[n]) = AllOperations
  /\ \A n, p \in Nodes : StateVector(doc[n]) = StateVector(doc[p])

UniqueGuid(node, msg_id) == node \o "-" \o ToString(msg_id)

KeepMsgId(msg_id) == msg_id
BumpMsgId(msg_id) == msg_id + 1

\* The payloads a step may be handed besides generate: all of them bail.
UnexpectedPayloads == {"init", "init_ok", "generate_ok"}

UniqueFromInit(n) ==
  /\ uniq[n].up = "new"
  /\ uniq' = [uniq EXCEPT ![n].up = "up", ![n].msg_id = FirstUniqueId]
  /\ UNCHANGED <<inited, doc, known, neighborhood, net, msgId, clientNext,
                 last, sentIds, reqLog, sendOffsets, sendNodes, writes,
                 commits, reads, tick, rt, kv, alloc>>

\* step on generate: reply with the guid and the node's msg_id, then advance.
UniqueGenerate(n) ==
  /\ uniq[n].up = "up"
  /\ uniq[n].seen < MaxGenerate
  /\ LET in == Msg("c1", n, uniq[n].seen + 1, NoMsgId, [type |-> "generate"])
         reply == Msg(in.dst, in.src, uniq[n].msg_id, in.msg_id,
                      [type |-> "generate_ok",
                       id |-> UniqueGuid(uniq[n].node, uniq[n].msg_id)])
     IN  uniq' = [uniq EXCEPT ![n].out = Append(@, reply),
                              ![n].msg_id = BumpMsgId(@),
                              ![n].seen = @ + 1]
  /\ UNCHANGED <<inited, doc, known, neighborhood, net, msgId, clientNext,
                 last, sentIds, reqLog, sendOffsets, sendNodes, writes,
                 commits, reads, tick, rt, kv, alloc>>

\* step on any other payload bails before msg_id advances; whether the main
\* loop goes on after the error is left open.
UniqueBail(n) ==
  \E payload \in UnexpectedPayloads, goesOn \in {"up", "down"} :
    /\ uniq[n].up = "up"
    /\ uniq[n].seen < MaxGenerate
    /\ uniq' = [uniq EXCEPT ![n].seen = @ + 1, ![n].up = goesOn,
                            ![n].bailed = @ + 1]
    /\ UNCHANGED <<inited, doc, known, neighborhood, net, msgId, clientNext,
                   last, sentIds, reqLog, sendOffsets, sendNodes, writes,
                   commits, reads, tick, rt, kv, alloc>>

NextUnique ==
  \/ \E n \in UniqueNodes : UniqueFromInit(n)
  \/ \E n \in UniqueNodes : UniqueGenerate(n)
  \/ \E n \in UniqueNodes : UniqueBail(n)

SpecUnique == Init /\ [][NextUnique]_vars

\* C10: the k-th generate a node N handles is answered with id "<N>-<k>";
\* ids of one node are pairwise distinct and differ from the ids of every
\* node with another node id.
GeneratedIds(n) == [k \in DOMAIN uniq[n].out |-> uniq[n].out[k].payload.id]

C10_UniqueIds ==
  /\ \A n \in UniqueNodes : \A k \in DOMAIN uniq[n].out :
       /\ uniq[n].out[k].payload.type = "generate_ok"
       /\ GeneratedIds(n)[k] = n \o "-" \o ToString(k)
  /\ \A n, p \in UniqueNodes :
       \A k \in DOMAIN uniq[n].out, j \in DOMAIN uniq[p].out :
         (n # p \/ k # j) => GeneratedIds(n)[k] # GeneratedIds(p)[j]

C10_Witness ==
  /\ Len(uniq["n1"].out) = MaxGenerate
  /\ GeneratedIds("n1")[1] = "n1-1"
  /\ GeneratedIds("n1")[2] = "n1-2"
  /\ Len(uniq["n1-1"].out) > 0
  /\ GeneratedIds("n1-1")[1] = "n1-1-1"
  /\ uniq["n1-1"].bailed > 0
  /\ Len(uniq["n2"].out) > 0

\* ------------------------------------------------------- runtime threads
\* Runtime::run of a workload built on the Node trait (the broadcast node):
\* the main thread, the timer thread from_init may start, the stdin reader
\* and the stdout writer, with the two channels between them.
RtNode == "n1"
InitMsgIds == {0, 1}

\* The lines Maelstrom writes to the node's stdin: init first, then requests.
\* A gossip line whose diff is not valid base64 and a line of a type the
\* workload's Payload does not have are among them.
RequestTypes == {"broadcast", "read", "gossip", "unknown"}
RtInitLine(id) == Msg("c1", RtNode, id, NoMsgId, [type |-> "init"])
RtRequestLine(k, t) == Msg("c1", RtNode, k + 1, NoMsgId, [type |-> t])
\* A line that is not JSON.
MalformedLine == Msg("", "", NoMsgId, NoMsgId, [type |-> "malformed"])
IsJson(line) == line # MalformedLine

RtFeed ==
  /\ ~rt.closed
  /\ rt.fed <= MaxLines
  /\ \E line \in (IF rt.fed = 0
                    THEN {RtInitLine(id) : id \in InitMsgIds}
                    ELSE {RtRequestLine(rt.fed, t) : t \in RequestTypes}
                           \cup {MalformedLine}) :
       rt' = [rt EXCEPT !.stdin = Append(@, line), !.fed = @ + 1]

RtClose ==
  /\ ~rt.closed
  /\ rt.fed > 0
  /\ rt' = [rt EXCEPT !.closed = TRUE]

\* The process lives until main returns: Ok from run, or the error run passes on.
RtAlive == rt.pc \notin {"failed", "returned"}

\* init_node: the first line of stdin is the init message.
RtReadInit ==
  /\ rt.pc = "read_init"
  /\ rt.stdin # <<>>
  /\ rt' = [rt EXCEPT !.initMsg = Head(rt.stdin), !.stdin = Tail(@),
                      !.pc = "from_init"]

\* N::from_init is handed a Sender of the inbound channel: the broadcast and
\* g-counter nodes move it into a timer thread, another Node may drop it.
RtFromInit ==
  /\ rt.pc = "from_init"
  /\ \E t \in BOOLEAN : rt' = [rt EXCEPT !.timer = t, !.pc = "init_ok"]

\* Context::send and init_node's send: push on the outbound channel.
ChannelSendFront(q, out) == out \o q
ChannelSend(q, out) == q \o out

\* init_node queues init_ok on the outbound channel.
RtSendInitOk ==
  /\ rt.pc = "init_ok"
  /\ rt' = [rt EXCEPT !.msgOut = ChannelSend(@, <<InitOkReply(rt.initMsg)>>),
                      !.sent = @ \o <<InitOkReply(rt.initMsg)>>,
                      !.pc = "spawn_reader"]

RtSpawnReader ==
  /\ rt.pc = "spawn_reader"
  /\ rt' = [rt EXCEPT !.reader = TRUE, !.pc = "spawn_writer"]

\* run spawns send_loop and builds the Context around a clone of msg_out_tx.
RtSpawnWriter ==
  /\ rt.pc = "spawn_writer"
  /\ rt' = [rt EXCEPT !.writer = TRUE, !.pc = "event_loop",
                      !.outSenders = @ \cup {"context"}]

\* The Receiver of the inbound channel lives in run and then in event_loop;
\* it is dropped when either returns.
ReceiverGone == rt.pc \in {"failed", "join_reader", "join_writer", "returned"}

\* A mutation: a send on a channel without Receiver succeeds.
SendNeverFails(gone) == "ok"
\* Sender::send on the unbounded mpsc channel: it never blocks, and returns
\* Err exactly when the Receiver has been dropped.
ChannelSendResult(gone) == IF gone THEN "err" ELSE "ok"

\* The timer thread: sleep, then send Injected(Gossip) on the inbound channel;
\* break out of the loop when the send returns Err.
RtTimer ==
  /\ rt.timer
  /\ IF ChannelSendResult(ReceiverGone) = "ok"
     THEN /\ rt.ticks < MaxTicks
          /\ rt' = [rt EXCEPT !.msgIn = Append(@, [kind |-> "injected"]),
                              !.ticks = @ + 1,
                              !.early = @ \/ rt.pc = "init_ok"]
     ELSE rt' = [rt EXCEPT !.timer = FALSE, !.timerSawClosed = TRUE]

\* receive_loop: forward each line; at end of input send Eof and finish. A
\* line that serde_json::from_str rejects makes the closure return the error
\* through the ? operator, before the line that sends Eof.
RtReader ==
  /\ RtAlive
  /\ rt.reader
  /\ \/ /\ rt.stdin # <<>>
        /\ IsJson(Head(rt.stdin))
        /\ rt' = [rt EXCEPT !.msgIn = Append(@, [kind |-> "message",
                                                msg |-> Head(rt.stdin)]),
                            !.stdin = Tail(@)]
     \/ /\ rt.stdin # <<>>
        /\ ~IsJson(Head(rt.stdin))
        /\ rt' = [rt EXCEPT !.stdin = Tail(@), !.reader = FALSE]
     \/ /\ rt.stdin = <<>>
        /\ rt.closed
        /\ rt' = [rt EXCEPT !.msgIn = Append(@, [kind |-> "eof"]),
                            !.reader = FALSE, !.eofSent = TRUE]

EventLoopEarly(pc) == pc \in {"init_ok", "spawn_reader", "spawn_writer", "event_loop"}
EventLoopRuns(pc) == pc = "event_loop"

\* The for loop of event_loop asks the channel for the next event only after
\* the body of the previous iteration has returned.
SchedulerAlwaysFree(running) == TRUE
SchedulerFree(running) == running = <<>>

\* ToEvent::to_event: a message is an Event when its body deserializes into
\* the workload's Payload; injected signals and Eof always are.
\* The g-counter's Payload has ReadOk { value: u64 }, so a read_ok with a
\* number for value is one of its Events as well.
WorkloadTypes(w) ==
  IF w = "broadcast" THEN {"broadcast", "read", "gossip"}
                     ELSE {"add", "read", "gossip"}
Deserializes(w, msg) ==
  \/ msg.payload.type \in WorkloadTypes(w)
  \/ /\ w = "g-counter"
     /\ msg.payload.type = "read_ok"
     /\ msg.payload.value.json = "number"
Decodable(w, ev) == ev.kind = "message" => Deserializes(w, ev.msg)

\* The registry Runtime::run creates, and nothing adds to.
RtRegistry == {}
LinKvTypes == {"read", "read_ok", "write", "write_ok", "cas", "cas_ok"}
LinKvReplies == {"read_ok", "write_ok", "cas_ok"}
CanHandle(h, msg) == h = "lin_kv" /\ msg.payload.type \in LinKvTypes

\* event_loop's dispatch of one event: to the node's step, to the first
\* handler that can handle it, or to nothing at all.
Route(w, ev, registry) ==
  IF Decodable(w, ev) THEN "step"
  ELSE IF \E h \in registry : CanHandle(h, ev.msg) THEN "handler"
  ELSE "none"

\* What the node's step sends for an event: a reply to a request, the gossip
\* messages the Gossip signal has targets for (none or one here), nothing for
\* a gossip message and at the end of input.
StepOutputs(ev) ==
  IF ev.kind = "message" /\ ev.msg.payload.type \in {"broadcast", "read"}
    THEN {<<IntoReply(FirstBroadcastId, ev.msg,
                      [type |-> IF ev.msg.payload.type = "read"
                                  THEN "read_ok" ELSE "broadcast_ok"])>>}
  ELSE IF ev.kind = "injected"
    THEN {<<>>, <<Msg(RtNode, "n2", NoMsgId, NoMsgId, [type |-> "gossip"])>>}
  ELSE {<<>>}

\* step returns Err when a gossip message's base64 or update does not decode;
\* event_loop wraps it as "Node step function failed".
StepFailed == "Node step function failed"
NoHandler == "No handler registered for type"
StepFails(ev) == ev.kind = "message" /\ ev.msg.payload.type = "gossip"

\* event_loop takes the next event and enters step with it; a message that is
\* no Event and that no handler can handle is passed over in silence.
RtStepBegin ==
  /\ EventLoopRuns(rt.pc)
  /\ SchedulerFree(rt.running)
  /\ rt.msgIn # <<>>
  /\ LET ev == Head(rt.msgIn)
         route == Route("broadcast", ev, RtRegistry)
     IN  rt' = [rt EXCEPT
                  !.msgIn = Tail(@),
                  !.running = IF route = "none" THEN @
                              ELSE Append(@, [thread |-> "main", ev |-> ev]),
                  !.unhandled = IF route = "none" THEN @ + 1 ELSE @,
                  !.afterEof = IF rt.eofDone THEN @ + 1 ELSE @]

\* step returns: what it sent is on the outbound channel; an Err leaves
\* event_loop and run through the ? operator, and main returns it.
RtStepEnd ==
  /\ RtAlive
  /\ rt.running # <<>>
  /\ LET ev == Head(rt.running).ev
     IN  IF StepFails(ev)
           THEN rt' = [rt EXCEPT !.running = Tail(@), !.pc = "failed",
                                 !.errors = Append(@, StepFailed)]
           ELSE \E out \in StepOutputs(ev) :
                  rt' = [rt EXCEPT !.running = Tail(@),
                                   !.msgOut = ChannelSend(@, out),
                                   !.sent = @ \o out,
                                   !.eofDone = @ \/ ev.kind = "eof"]

\* The inbound channel is closed, and the for loop ends, when the queue is
\* empty and every Sender is gone: the reader's two and the timer's one.
InboundClosed == rt.msgIn = <<>> /\ ~rt.reader /\ ~rt.timer

\* event_loop returns Ok: its Context and node are dropped; run goes on to
\* join the reader.
RtLoopExit ==
  /\ EventLoopRuns(rt.pc)
  /\ rt.running = <<>>
  /\ InboundClosed
  /\ rt' = [rt EXCEPT !.pc = "join_reader",
                      !.outSenders = @ \ {"context"}]

\* run joins the reader thread, then the writer thread, then returns Ok.
RtJoin ==
  \/ /\ rt.pc = "join_reader"
     /\ ~rt.reader
     /\ rt' = [rt EXCEPT !.pc = "join_writer"]
  \/ /\ rt.pc = "join_writer"
     /\ ~rt.writer
     /\ rt' = [rt EXCEPT !.pc = "returned", !.outSenders = {}]

\* send_loop: write each message of the outbound channel as one line; the
\* loop ends when the channel is empty and every Sender has been dropped.
RtWriter ==
  /\ RtAlive
  /\ rt.writer
  /\ \/ /\ rt.msgOut # <<>>
        /\ rt' = [rt EXCEPT !.stdout = Append(@, Head(rt.msgOut)),
                            !.msgOut = Tail(@)]
     \/ /\ rt.msgOut = <<>>
        /\ rt.outSenders = {}
        /\ rt' = [rt EXCEPT !.writer = FALSE]

RtUnchanged ==
  UNCHANGED <<inited, doc, known, neighborhood, net, msgId, clientNext, last,
              sentIds, reqLog, sendOffsets, sendNodes, writes, commits, reads,
              tick, uniq, kv, alloc>>

NextRuntime ==
  \/ RtFeed /\ RtUnchanged
  \/ RtClose /\ RtUnchanged
  \/ RtReadInit /\ RtUnchanged
  \/ RtFromInit /\ RtUnchanged
  \/ RtSendInitOk /\ RtUnchanged
  \/ RtSpawnReader /\ RtUnchanged
  \/ RtSpawnWriter /\ RtUnchanged
  \/ RtTimer /\ RtUnchanged
  \/ RtReader /\ RtUnchanged
  \/ RtStepBegin /\ RtUnchanged
  \/ RtStepEnd /\ RtUnchanged
  \/ RtLoopExit /\ RtUnchanged
  \/ RtJoin /\ RtUnchanged
  \/ RtWriter /\ RtUnchanged

SpecRuntime == Init /\ [][NextRuntime]_vars

\* C3: the first line the node writes is init_ok, with src and dst swapped
\* from the init message, in_reply_to the init's msg_id and msg_id 0; nothing
\* of the workload is queued or written before it, although the timer thread
\* runs before init_ok is queued.
IsInitOk(m) ==
  /\ m.payload.type = "init_ok"
  /\ m.src = rt.initMsg.dst
  /\ m.dst = rt.initMsg.src
  /\ m.in_reply_to = rt.initMsg.msg_id
  /\ m.msg_id = 0

C3_InitOkFirst ==
  /\ rt.stdout # <<>> => IsInitOk(rt.stdout[1])
  /\ (rt.stdout = <<>> /\ rt.msgOut # <<>>) => IsInitOk(rt.msgOut[1])
  /\ \A i \in DOMAIN rt.stdout : i > 1 => rt.stdout[i].payload.type # "init_ok"

C3_Witness ==
  /\ rt.early
  /\ rt.initMsg.msg_id = 1
  /\ Len(rt.stdout) >= 2
  /\ IsInitOk(rt.stdout[1])
  /\ rt.stdout[2].payload.type = "gossip"

\* C11: at most one step is executing at any moment and it runs on the
\* scheduler (main) thread, whatever the reader, the writer and the timer do
\* meanwhile; the timer only enqueues events.
C11_NoOverlap ==
  /\ Len(rt.running) <= 1
  /\ \A i \in DOMAIN rt.running : rt.running[i].thread = "main"

C11_Witness ==
  /\ Len(rt.running) = 1
  /\ rt.running[1].ev.kind = "message"
  /\ rt.timer /\ rt.reader /\ rt.writer
  /\ rt.msgIn # <<>>
  /\ Head(rt.msgIn).kind = "injected"
  /\ rt.msgOut # <<>>

\* C12: once the step for Eof has returned, no further message or injected
\* signal is dispatched to step.
C12_EofEndsLoop == rt.eofDone => rt.afterEof = 0

\* C13: once the scheduler loop has exited and run waits for the writer
\* thread, the writer can always go on (write a queued message, or end
\* because the outbound channel is closed) or the join can return: joining
\* the writer never blocks for ever.
C13_RunReturns ==
  rt.pc = "join_writer" => (ENABLED RtWriter) \/ (ENABLED RtJoin)

\* C14: the lines written, followed by the messages still queued, are the
\* messages the scheduler thread sent, in the order of the sends, each once.
C14_OutboundOrder == rt.stdout \o rt.msgOut = rt.sent

C14_Witness ==
  /\ Len(rt.stdout) >= 2
  /\ rt.msgOut # <<>>
  /\ rt.stdout[2].payload.type = "broadcast_ok"
  /\ Head(rt.msgOut).payload.type = "gossip"
  /\ rt.ticks > 0

\* C19: every inbound message that is no Event of the workload and that no
\* registered handler accepts has a NoHandler error surfaced for it, and the
\* scheduler goes on.
C19_NoHandlerSurfaced ==
  /\ Cardinality({i \in DOMAIN rt.errors : rt.errors[i] = NoHandler})
       = rt.unhandled
  /\ rt.unhandled > 0 => rt.pc # "failed"

\* C20: an error returned by the workload's step does not end the scheduler:
\* after it the event loop is still running (or has ended at end of input).
C20_StepErrorContinues ==
  (\E i \in DOMAIN rt.errors : rt.errors[i] = StepFailed) => rt.pc # "failed"

\* ------------------------------------------------------- lin-kv handler
\* A g-counter node that uses the LinKv handler (rpc/lin_kv.rs) for RPCs to
\* the lin-kv service: handled requests issue read, write or cas, and
\* event_loop dispatches what arrives from the service.
KvNode == "n1"
KvWorkload == "g-counter"
KvRegistry == {"lin_kv"}
RpcKinds == {"read", "write", "cas"}
AnswerOf(kind) ==
  CASE kind = "read" -> "read_ok"
    [] kind = "write" -> "write_ok"
    [] OTHER -> "cas_ok"

NotReply == "Not a reply"
WrongEvent == "Wrong Event type"
NoCallback == "No callback registered for message"
BorrowMutError == "already borrowed: BorrowMutError"

\* MessageSet::is_matching_reply: the reply's in_reply_to, if it has one, is
\* the id of one of the set's messages.
IsMatchingReply(sent, msg) ==
  IF msg.in_reply_to = NoMsgId THEN FALSE
  ELSE msg.in_reply_to \in {m.msg_id : m \in sent}

\* CallbackInfo::matches
MatchesIgnoringDst(info, msg) == IsMatchingReply(info.sent, msg)
Matches(info, msg) ==
  IsMatchingReply(info.sent, msg) /\ info.orig.dst = msg.dst

\* handle_reply's iter_mut().enumerate().find(..): the first matching entry,
\* 0 for none.
FindCallback(cbs, msg) ==
  LET hits == {i \in DOMAIN cbs : Matches(cbs[i], msg)}
  IN  IF hits = {} THEN 0 ELSE CHOOSE i \in hits : \A j \in hits : i <= j

\* The process_callback closures of read, write and cas: each accepts only its
\* own answer, calls the caller's continuation and returns Finished.
CallbackAccepts(kind, msg) == msg.payload.type = AnswerOf(kind)

\* RefCell::borrow_mut panics while another borrow of the cell is alive.
BorrowMut(borrowed) == IF borrowed THEN "panic" ELSE "ok"
\* handle_reply's first RefMut (`borrow`) lives to the end of the function,
\* so it is alive when the Finished arm borrows the cell again.
BorrowAliveAtRemove == TRUE
Remove(cbs, idx) == [i \in 1..(Len(cbs) - 1) |-> IF i < idx THEN cbs[i] ELSE cbs[i + 1]]

Outcome(status, error, cbs, found, called, returned) ==
  [status |-> status, error |-> error, callbacks |-> cbs, found |-> found,
   called |-> called, returned |-> returned]

\* LinKv::handle_reply
HandleReply(cbs, msg) ==
  LET idx == FindCallback(cbs, msg)
  IN  IF idx = 0
        THEN Outcome("failed", NoCallback, cbs, 0, FALSE, "none")
      ELSE IF ~CallbackAccepts(cbs[idx].kind, msg)
        THEN Outcome("failed", WrongEvent, cbs, idx, FALSE, "none")
      ELSE IF BorrowMut(BorrowAliveAtRemove) = "panic"
        THEN Outcome("panicked", BorrowMutError, cbs, idx, TRUE, "Finished")
      ELSE Outcome("running", "", Remove(cbs, idx), idx, TRUE, "Finished")

\* LinKv::step (the Handler's step)
LinKvStep(cbs, msg) ==
  IF ~IsReply(msg)
    THEN Outcome("failed", NotReply, cbs, 0, FALSE, "none")
  ELSE IF msg.payload.type \in LinKvReplies
    THEN HandleReply(cbs, msg)
  ELSE Outcome("running", "", cbs, 0, FALSE, "none")

\* LinKv::read / write / cas through persist_callback, called by the node
\* while it handles a client's request: the RPC gets the next msg_id, is sent
\* to lin-kv, and its CallbackInfo is pushed.
\* Context::send fails when the receiving end of the outbound channel is
\* gone; the ? of persist_callback then returns before the entry is pushed.
SendFailed == "send message to stdout"

\* A mutation: the entry is pushed whether or not the request was sent.
PersistAlways(cbs, out, counter, orig, kind, sendOk) ==
  LET id == NextMsgId(counter)
      rpc == Msg(KvNode, "lin-kv", id.id, NoMsgId, [type |-> kind])
  IN  [callbacks |-> Append(cbs, [orig |-> orig, sent |-> {rpc}, kind |-> kind]),
       out |-> IF sendOk THEN Append(out, rpc) ELSE out,
       counter |-> id.next,
       error |-> IF sendOk THEN "" ELSE SendFailed]

\* persist_callback: build the request (the builder's id() allocates the
\* msg_id), send it, then push the CallbackInfo.
PersistCallback(cbs, out, counter, orig, kind, sendOk) ==
  LET id == NextMsgId(counter)
      rpc == Msg(KvNode, "lin-kv", id.id, NoMsgId, [type |-> kind])
  IN  IF sendOk
      THEN [callbacks |-> Append(cbs, [orig |-> orig, sent |-> {rpc},
                                       kind |-> kind]),
            out |-> Append(out, rpc),
            counter |-> id.next,
            error |-> ""]
      ELSE [callbacks |-> cbs, out |-> out, counter |-> id.next,
            error |-> SendFailed]

\* The Err of a failed call reaches event_loop through the ? of the node's
\* step and ends the process.
KvCall ==
  /\ kv.status = "running"
  /\ kv.rpcs < MaxRpcs
  /\ \E kind \in RpcKinds, sendOk \in BOOLEAN :
       LET orig == Msg("c1", KvNode, kv.rpcs + 1, NoMsgId, [type |-> "add"])
           p == PersistCallback(kv.callbacks, kv.out, kv.msgId, orig, kind,
                                sendOk)
       IN  kv' = [kv EXCEPT
                    !.msgId = p.counter,
                    !.out = p.out,
                    !.callbacks = p.callbacks,
                    !.status = IF p.error = "" THEN @ ELSE "failed",
                    !.errors = IF p.error = "" THEN @ ELSE Append(@, p.error),
                    !.call = [orig |-> orig, ok |-> sendOk],
                    !.rpcs = @ + 1]

\* What can arrive at the node from the lin-kv service.
JsonValues == {[json |-> "number"], [json |-> "string"]}
KvPayloads ==
  {[type |-> "read_ok", value |-> v] : v \in JsonValues}
    \cup {[type |-> t] : t \in {"write_ok", "cas_ok", "error"}}
KvInbound ==
  {Msg("lin-kv", KvNode, 0, irt, pl) :
     irt \in {NoMsgId} \cup 0..MaxRpcs, pl \in KvPayloads}

\* event_loop on a message from lin-kv: node.step if the g-counter's Payload
\* deserializes it, else the LinKv handler if it can handle it; an Err of
\* the handler leaves event_loop through the ? operator.
KvDeliver ==
  /\ kv.status = "running"
  /\ kv.replies < MaxReplies
  /\ \E r \in KvInbound :
       LET route == Route(KvWorkload, [kind |-> "message", msg |-> r], KvRegistry)
           o == IF route = "handler" THEN LinKvStep(kv.callbacks, r)
                ELSE Outcome("running", "", kv.callbacks, 0, FALSE, "none")
       IN  kv' = [kv EXCEPT
                    !.status = o.status,
                    !.callbacks = o.callbacks,
                    !.errors = IF o.error = "" THEN @ ELSE Append(@, o.error),
                    !.invoked = IF o.called
                                  THEN Append(@, [entry |-> kv.callbacks[o.found],
                                                  reply |-> r])
                                  ELSE @,
                    !.replies = @ + 1,
                    !.last = [reply |-> r, route |-> route,
                              before |-> kv.callbacks, found |-> o.found,
                              called |-> o.called, returned |-> o.returned]]

KvUnchanged ==
  UNCHANGED <<inited, doc, known, neighborhood, net, msgId, clientNext, last,
              sentIds, reqLog, sendOffsets, sendNodes, writes, commits, reads,
              tick, uniq, rt, alloc>>

NextRpc ==
  \/ KvCall /\ KvUnchanged
  \/ KvDeliver /\ KvUnchanged

SpecRpc == Init /\ [][NextRpc]_vars

\* The rule of the pending-RPC table as the specification words it.
MatchRule(info, msg) ==
  /\ msg.in_reply_to # NoMsgId
  /\ \E m \in info.sent : m.msg_id = msg.in_reply_to
  /\ msg.dst = info.orig.dst

Answers(info, msg) ==
  MatchRule(info, msg) /\ msg.payload.type = AnswerOf(info.kind)

ReplyDomain ==
  {Msg("lin-kv", dst, 0, irt, [type |-> t]) :
     dst \in {KvNode, "n2"}, irt \in {NoMsgId} \cup 0..MaxRpcs,
     t \in LinKvReplies}

\* C15: whenever the message that arrived is the answer to the RPC of a
\* pending entry (its in_reply_to is the entry's outbound msg_id), the
\* continuation of that entry has been invoked, also when the answer
\* deserializes into the workload's own payload type.
C15_ContinuationInvoked ==
  (\E i \in DOMAIN kv.last.before : Answers(kv.last.before[i], kv.last.reply))
    => kv.last.called

\* C16: when a matching reply was processed and the continuation returned
\* Finished, the entry is gone from the table and the handling of the reply
\* ended normally.
C16_FinishedRemoves ==
  kv.last.returned = "Finished" =>
    /\ kv.status = "running"
    /\ kv.callbacks = Remove(kv.last.before, kv.last.found)

\* C17: a message matches a pending entry exactly when it has an in_reply_to
\* that is the msg_id of one of the entry's outbound messages and its dst is
\* the dst of the entry's original incoming message; the entry handle_reply
\* picks is the first such entry, and none is picked when there is none.
C17_MatchRule ==
  /\ \A i \in DOMAIN kv.callbacks : \A r \in ReplyDomain :
       Matches(kv.callbacks[i], r) <=> MatchRule(kv.callbacks[i], r)
  /\ kv.last.found # 0 =>
       /\ MatchRule(kv.last.before[kv.last.found], kv.last.reply)
       /\ \A j \in 1..(kv.last.found - 1) :
            ~MatchRule(kv.last.before[j], kv.last.reply)
  /\ (kv.last.route = "handler" /\ kv.last.found = 0) =>
       \/ kv.last.reply.payload.type \notin LinKvReplies
       \/ \A j \in DOMAIN kv.last.before :
            ~MatchRule(kv.last.before[j], kv.last.reply)

C17_Witness ==
  /\ kv.last.found = 2
  /\ Matches(kv.last.before[2], kv.last.reply)
  /\ ~Matches(kv.last.before[1], kv.last.reply)
  /\ ~Matches(kv.last.before[2], [kv.last.reply EXCEPT !.dst = "n2"])
  /\ ~Matches(kv.last.before[2], [kv.last.reply EXCEPT !.in_reply_to = NoMsgId])

\* C18: after a reply that matches no pending entry, a NoCallback error has
\* been reported, no continuation was invoked, the table is as it was, and
\* the node is still processing events.
C18_NoCallbackContinues ==
  (/\ kv.last.route = "handler"
   /\ IsReply(kv.last.reply)
   /\ kv.last.reply.payload.type \in LinKvReplies
   /\ \A i \in DOMAIN kv.last.before :
        ~MatchRule(kv.last.before[i], kv.last.reply))
    => /\ \E i \in DOMAIN kv.errors : kv.errors[i] = NoCallback
       /\ ~kv.last.called
       /\ kv.callbacks = kv.last.before
       /\ kv.status = "running"

\* C21: a malformed line fails only that line: whenever the reader thread has
\* ended, it has read every line of stdin and has sent Eof to the scheduler.
ReaderEnded ==
  rt.pc \notin {"read_init", "from_init", "init_ok", "spawn_reader"} /\ ~rt.reader

C21_MalformedLineSkipped ==
  ReaderEnded => rt.stdin = <<>> /\ rt.eofSent

GossipTo(n, p) ==
  [src |-> n, dst |-> p, msg_id |-> NoMsgId, in_reply_to |-> NoMsgId,
   payload |-> [type |-> "admin",
                state_vector |-> Encode(StateVector(doc[n])),
                diff |-> Encode(EncodeDiff(doc[n], known[n][p]))]]

SentTo(p) == {i \in DOMAIN last.out : last.out[i].dst = p}

C24_GossipPerNeighbor ==
  last.in.payload.type = "Gossip" =>
    LET n == last.node
    IN  /\ \A p \in neighborhood[n] :
             known[n][p] # StateVector(doc[n]) =>
               /\ Cardinality(SentTo(p)) = 1
               /\ \A i \in SentTo(p) : last.out[i] = GossipTo(n, p)
        /\ \A i \in DOMAIN last.out :
             /\ last.out[i].dst \in neighborhood[n]
             /\ Cardinality(SentTo(last.out[i].dst)) = 1
             /\ last.out[i] = GossipTo(n, last.out[i].dst)

C24_Witness ==
  /\ last.in.payload.type = "Gossip"
  /\ \E p \in neighborhood[last.node] :
       /\ known[last.node][p] # StateVector(doc[last.node])
       /\ EncodeDiff(doc[last.node], known[last.node][p]) # {}
       /\ SentTo(p) # {}

\* C26: after a node has handled a well-formed inbound gossip, its record of
\* the sender's state vector is the vector of the message, its document holds
\* every operation of the diff, and the step sent nothing; no step removes an
\* operation from a document.
C26_Handled ==
  last.in.payload.type = "admin" /\ WellFormedGossip(last.in) =>
    /\ known[last.node][last.in.src] = Decode(last.in.payload.state_vector)
    /\ Decode(last.in.payload.diff) \subseteq Integrated(doc[last.node])
    /\ last.out = <<>>

C26_Kept ==
  \A n \in Nodes : Integrated(doc[n]) \subseteq Integrated(doc'[n])

C26_GossipApplied == [](C26_Handled) /\ [][C26_Kept]_vars

C26_Witness ==
  /\ last.in.payload.type = "admin"
  /\ WellFormedGossip(last.in)
  /\ Decode(last.in.payload.diff) # {}
  /\ Decode(last.in.payload.state_vector) # EmptySV
  /\ doc[last.node] \ Decode(last.in.payload.diff) # {}

\* ------------------------------------------------- the shared id counter
\* Context derives Clone; its msg_id is an Arc<AtomicUsize>, so every clone
\* draws from the counter of the original.
CtxClone ==
  \E t \in Threads \ alloc.holders :
    alloc' = [alloc EXCEPT !.holders = @ \cup {t}]

\* One call of next_msg_id on the clone held by thread t. fetch_add with
\* SeqCst is one atomic read-modify-write: no other call falls between its
\* read and its write.
CtxNextMsgId ==
  \E t \in alloc.holders :
    /\ alloc.calls < MaxAllocs
    /\ LET r == NextMsgId(alloc.counter)
       IN  alloc' = [alloc EXCEPT !.counter = r.next,
                                  !.got[t] = Append(@, r.id),
                                  !.calls = @ + 1]

AllocUnchanged ==
  UNCHANGED <<inited, doc, known, neighborhood, net, msgId, clientNext, last,
              sentIds, reqLog, sendOffsets, sendNodes, writes, commits, reads,
              tick, uniq, rt, kv>>

NextAlloc ==
  \/ CtxClone /\ AllocUnchanged
  \/ CtxNextMsgId /\ AllocUnchanged

SpecAlloc == Init /\ [][NextAlloc]_vars

\* C23: the ids returned by next_msg_id through the clones of one Context are
\* pairwise distinct, and those returned to one thread are strictly increasing.
Returned == {<<t, i>> : t \in Threads, i \in 1..MaxAllocs}

C23_AtomicAllocation ==
  /\ \A a \in Returned, b \in Returned :
       /\ a[2] <= Len(alloc.got[a[1]])
       /\ b[2] <= Len(alloc.got[b[1]])
       /\ a # b
       => alloc.got[a[1]][a[2]] # alloc.got[b[1]][b[2]]
  /\ \A t \in Threads :
       \A i \in 1..Len(alloc.got[t]) : \A j \in 1..Len(alloc.got[t]) :
         i < j => alloc.got[t][i] < alloc.got[t][j]

\* Two threads whose calls interleave.
C23_Witness ==
  \E t \in Threads, u \in Threads :
    /\ t # u
    /\ Len(alloc.got[t]) >= 2
    /\ Len(alloc.got[u]) >= 2
    /\ alloc.got[t][1] < alloc.got[u][1]
    /\ alloc.got[u][1] < alloc.got[t][2]
    /\ alloc.got[t][2] < alloc.got[u][2]

\* C25: no node emits a gossip message addressed to itself.
C25_NoGossipToSelf ==
  \A m \in net : m.payload.type = "gossip" => m.dst # m.src

\* C27: the neighborhood chosen at startup does not contain the node itself
\* and, in a cluster of fewer than 5 nodes, contains every other node.
C27_NeighborhoodPolicy ==
  \A n \in Nodes :
    inited[n] =>
      /\ n \notin neighborhood[n]
      /\ Cardinality(Nodes) < NeighborFloor =>
           Nodes \ {n} \subseteq neighborhood[n]

\* C28: a call of read, write or cas that succeeds sends exactly one request
\* to lin-kv, under a msg_id no earlier request carries, and adds exactly one
\* pending entry that records that request and the caller's incoming message;
\* a call whose send fails adds no entry and sends nothing.
C28_CallFrame ==
  kv'.rpcs = kv.rpcs + 1 =>
    IF kv'.call.ok
    THEN /\ Len(kv'.out) = Len(kv.out) + 1
         /\ SubSeq(kv'.out, 1, Len(kv.out)) = kv.out
         /\ Len(kv'.callbacks) = Len(kv.callbacks) + 1
         /\ SubSeq(kv'.callbacks, 1, Len(kv.callbacks)) = kv.callbacks
         /\ LET rpc == kv'.out[Len(kv'.out)]
                e == kv'.callbacks[Len(kv'.callbacks)]
            IN  /\ rpc.dst = "lin-kv"
                /\ rpc.msg_id # NoMsgId
                /\ \A i \in DOMAIN kv.out : kv.out[i].msg_id # rpc.msg_id
                /\ {m.msg_id : m \in e.sent} = {rpc.msg_id}
                /\ e.orig = kv'.call.orig
    ELSE /\ kv'.callbacks = kv.callbacks
         /\ kv'.out = kv.out

C28_OneRequestOneEntry == [][C28_CallFrame]_vars

\* A second call succeeded and a later one failed to send.
C28_Witness ==
  /\ Len(kv.callbacks) = 2
  /\ Len(kv.out) = 2
  /\ kv.callbacks[2].orig = kv.call.orig
  /\ kv.call.ok

C28_FailedWitness ==
  /\ ~kv.call.ok
  /\ kv.rpcs = 2
  /\ Len(kv.callbacks) = 1

\* C29: a reply of type error that answers a pending RPC is accepted by the
\* LinKv handler and resolves the pending entry it matches.
C29_ErrorReplyHandled ==
  (/\ kv.last.reply.payload.type = "error"
   /\ \E i \in DOMAIN kv.last.before :
        MatchRule(kv.last.before[i], kv.last.reply))
    => /\ CanHandle("lin_kv", kv.last.reply)
       /\ kv.last.route = "handler"
       /\ kv.last.called

\* C30: a value a node has acknowledged with broadcast_ok is in the node's
\* document when the acknowledgement is sent, no later step of any kind takes
\* a value out of a document, and the messages of a read_ok are exactly the
\* values in the document of the node that answers.
Values(d) == {it.num : it \in {b \in Integrated(d) : b.kind = "msg"}}

C30_ReadState ==
  LastType = "read" =>
    /\ Len(last.out) = 1
    /\ last.out[1].payload.type = "read_ok"
    /\ Range(last.out[1].payload.messages) = Values(doc[last.node])

C30_AckFrame ==
  (writes' = writes + 1 /\ last'.in.payload.type = "broadcast") =>
    /\ last'.out[1].payload.type = "broadcast_ok"
    /\ last'.in.payload.message \in Values(doc'[last'.node])

C30_KeptFrame ==
  \A n \in Nodes : Values(doc[n]) \subseteq Values(doc'[n])

C30_ReadContainsAcked ==
  [](C30_ReadState) /\ [][C30_AckFrame /\ C30_KeptFrame]_vars

\* A read answered with a value the node acknowledged itself and a value it
\* learned from gossip.
C30_Witness ==
  /\ LastType = "read"
  /\ Len(last.out[1].payload.messages) = 2
  /\ \E it \in doc[last.node] : it.client = ClientId(last.node)
  /\ \E it \in doc[last.node] : it.client # ClientId(last.node)

\* C31: an add at a node raises the node's own slot of the counter map by
\* exactly delta and leaves every other slot, and every other node's document,
\* as it was; a read returns the sum of the slots of the local document.
Slot(d, n) ==
  LET own == {it \in Integrated(d) : it.kind = "ctr" /\ it.key = CounterKey(n)}
  IN  IF own = {} THEN 0
      ELSE (CHOOSE it \in own : \A o \in own : o.clock <= it.clock).num

SlotTotal(d) == Slot(d, "n1") + Slot(d, "n2")

C31_AddFrame ==
  (writes' = writes + 1 /\ last'.in.payload.type = "add") =>
    LET n == last'.node
    IN  /\ Slot(doc'[n], n) = Slot(doc[n], n) + last'.in.payload.delta
        /\ \A p \in Nodes \ {n} :
             /\ Slot(doc'[n], p) = Slot(doc[n], p)
             /\ doc'[p] = doc[p]
        /\ last'.out[1].payload.type = "add_ok"

C31_ReadFrame ==
  (reads' = reads + 1 /\ last'.in.payload.type = "read") =>
    /\ last'.out[1].payload.type = "read_ok"
    /\ last'.out[1].payload.value = SlotTotal(doc[last'.node])

C39_ReadFrame ==
  \A n \in Nodes : SlotTotal(doc[n]) <= SlotTotal(doc'[n])

C32_TimerCanExit ==
  ReceiverGone /\ rt.timer => ENABLED RtTimer

C32_TimerFrame ==
  ReceiverGone =>
    /\ rt'.ticks = rt.ticks
    /\ rt'.msgIn = rt.msgIn
    /\ rt'.timer # rt.timer => ~rt'.timer /\ rt'.timerSawClosed

C32_TimerExits == [](C32_TimerCanExit) /\ [][C32_TimerFrame]_vars

\* The scheduler left event_loop with an error while the timer thread was
\* alive, and the timer has since found the channel closed.
C32_Witness ==
  /\ rt.pc = "failed"
  /\ rt.timerSawClosed
  /\ ~rt.timer
  /\ rt.ticks > 0

\* C33: handling a reply never asks for the callbacks table while the table
\* is already borrowed: no reply ends in a BorrowMutError panic.
C33_NoDoubleBorrow ==
  /\ kv.status # "panicked"
  /\ \A i \in DOMAIN kv.errors : kv.errors[i] # BorrowMutError

\* C34: what a node records as a peer's state vector never counts an operation
\* the peer's document lacks.
C34_KnownNotAhead ==
  \A q \in Nodes : \A p \in DOMAIN known[q] :
    /\ \A c \in ClientIds : known[q][p][c] <= StateVector(doc[p])[c]
    /\ Integrated(doc[q]) \ Integrated(doc[p])
         \subseteq EncodeDiff(doc[q], known[q][p])

\* A node's record of its peer is behind the peer, after having been set.
C34_Witness ==
  \E q \in Nodes, p \in Nodes :
    /\ q # p
    /\ p \in DOMAIN known[q]
    /\ known[q][p] # EmptySV
    /\ known[q][p] # StateVector(doc[p])
    /\ \E m \in net : m.src = p /\ m.dst = q
                      /\ Decode(m.payload.state_vector) # known[q][p]

\* C36: after a reply made a continuation return Finished, no entry of the
\* table matches that reply any more, so a duplicate of it finds no callback;
\* and one reply invokes the continuation of one entry at most.
C36_FinishedOnce ==
  /\ kv.last.returned = "Finished" =>
       \A i \in DOMAIN kv.callbacks : ~MatchRule(kv.callbacks[i], kv.last.reply)
  /\ Len(kv.invoked) <= kv.replies

\* C35: a message a node has acknowledged with send_ok stays in what a poll
\* from offset 0 returns at that node, whatever gossip the node merges.
Acknowledged(n) ==
  {it \in doc[n] : it.kind = "push" /\ it.client = ClientId(n)}

PolledFromZero(n, key) ==
  LET p == PollMsgs(doc[n], [k \in {key} |-> 0])
  IN  IF key \in DOMAIN p THEN {p[key][i][2] : i \in DOMAIN p[key]} ELSE {}

C35_AcknowledgedKept ==
  \A n \in Nodes : \A it \in Acknowledged(n) :
    it.val \in PolledFromZero(n, it.key)

\* C37: when either string of an inbound gossip fails to decode, the step
\* returns an error, sends nothing, and leaves the node's record of the
\* sender's state vector and the node's document as they were.
C37_DecodeFrame ==
  (last' # last /\ last'.in.payload.type = "gossip"
                /\ ~WellFormedGossip(last'.in)) =>
    /\ last'.error # ""
    /\ last'.out = <<>>
    /\ known' = known
    /\ doc' = doc

C37_AfterError ==
  (last.in.payload.type = "gossip" /\ ~WellFormedGossip(last.in)) =>
    last.error # ""

C38_TickUnreachable ==
  /\ last.in.payload.type # "Tick"
  /\ last.error # TickPanic

\* An injected signal was handled: Gossip, with a message sent.
C38_Witness ==
  /\ last.in = InjectedGossip(last.node)
  /\ last.out # <<>>
  /\ last.error = ""

\* C40: every member of a node's neighborhood is a key of its known map, no
\* step removes a key of known, and handling a Gossip signal leaves known
\* and the document as they were.
C40_Keys ==
  \A n \in Nodes : inited[n] => neighborhood[n] \subseteq DOMAIN known[n]

C40_Frame ==
  /\ \A n \in Nodes : DOMAIN known[n] \subseteq DOMAIN known'[n]
  /\ (last' # last /\ last'.in.payload.type = "Gossip") =>
       known' = known /\ doc' = doc

C40_KnownCoversNeighborhood == [](C40_Keys) /\ [][C40_Frame]_vars

\* A Gossip signal was handled by a node that looked up a neighbor whose
\* vector had been recorded from gossip, with a document of its own.
C40_Witness ==
  /\ last.in.payload.type = "Gossip"
  /\ last.out # <<>>
  /\ doc[last.node] # {}
  /\ \E p \in neighborhood[last.node] : known[last.node][p] # EmptySV
====
